---- MODULE Spec2Model ----
(***************************************************************************)
(* Model of wtop (src/wtop.cpp): the main loop of the process monitor, its *)
(* key handling, GetProcesses, GetSystemCPU and MatchesFilter.             *)
(*                                                                         *)
(* One step of the model is one iteration of the `while (true)` loop of    *)
(* main.  What the operating system hands to that iteration (the pending   *)
(* console bytes, the process table, the answers of GetSystemTimes) is     *)
(* chosen from small sets.                                                 *)
(*                                                                         *)
(* Numbers.  FILETIME values are 64-bit unsigned integers.  A float or     *)
(* double result is kept as the exact fraction num/den of the division the *)
(* code performs; an unsigned subtraction that wraps is kept as a flag     *)
(* (the operands of the model are far below 2^10, and double(2^64 - k) is  *)
(* 2^64 for every such k).                                                 *)
(***************************************************************************)
EXTENDS Integers, Sequences, FiniteSets, TLC

VARIABLES
    sortByCpu,      \* main: bool sortByCpu
    showHelp,       \* main: bool showHelp
    scroll,         \* main: int scroll
    searchMode,     \* main: bool searchMode
    searchFilter,   \* main: std::wstring searchFilter (sequence of character codes)
    allProcesses,   \* main: std::vector<ProcessInfo> allProcesses
    filtered,       \* main: std::vector<ProcessInfo> filtered
    lastProcTime,   \* global std::map<DWORD, ULONGLONG> lastProcTime
    lastSysTime,    \* global std::map<DWORD, ULONGLONG> lastSysTime
    prevTimes,      \* GetSystemCPU: static FILETIME prevIdle, prevKernel, prevUser
    cpu,            \* main: float cpu, the value GetSystemCPU returned last
    kbuf,           \* console input buffer: bytes _getch has not read yet
    osTimes,        \* the operating system's cumulative idle/kernel/user counters
    io,             \* what the last iteration read: key bytes, snapshot, system times,
                    \* and the maps and statics it started from
    divFault,       \* TRUE once a division by zero has been executed
    trail,          \* the key sequence since the last '/' pressed in Normal mode
    cpuShown        \* the list on display, and the processes it was made from,
                    \* when Tab last switched from CPU to memory order

vars == <<sortByCpu, showHelp, scroll, searchMode, searchFilter, allProcesses,
          filtered, lastProcTime, lastSysTime, prevTimes, cpu, kbuf, osTimes,
          io, divFault, trail, cpuShown>>

----------------------------------------------------------------------------
(* Program constants *)

PageSize == 15      \* rows shown per page (wtop.cpp lines 198 and 252)

KeyEsc == 27
KeyEnter == 13
KeyBackspace == 8
KeyTab == 9
KeySlash == 47
KeyLowerH == 104
KeyUpperH == 72
KeyDownCode == 80
KeyUpCode == 72
PrefixZero == 0
PrefixExt == 224

----------------------------------------------------------------------------
(* Bounds of the model *)

MaxFilterLen == 2   \* longest filter text the user types
NumExtra == 1       \* background processes beyond one page
NumSamples == 4     \* distinct answers of GetSystemTimes
NumTimes == 3       \* distinct answers of GetProcessTimes
MaxShown == 3       \* longest list that cpuShown records

----------------------------------------------------------------------------
(* Fractions: the result of a float or double division *)

Frac(n, d) == [wrap |-> FALSE, num |-> n, den |-> d]
Zero == Frac(0, 1)
\* the quotient computed from an unsigned difference that wrapped around 2^64
Wrapped(d) == [wrap |-> TRUE, num |-> 0, den |-> d]
\* float cpu before the first call of GetSystemCPU
NotComputed == Frac(0, 0)

\* a > b on two computed values
FracGreater(a, b) ==
    IF a.wrap /\ b.wrap THEN a.den < b.den
    ELSE IF a.wrap THEN TRUE
    ELSE IF b.wrap THEN FALSE
    ELSE a.num * b.den > b.num * a.den

\* the value is exactly the number n/d (d > 0)
FracIs(a, n, d) == ~a.wrap /\ a.den > 0 /\ a.num * d = n * a.den

----------------------------------------------------------------------------
(* Text: std::wstring as a sequence of character codes *)

\* towlower on the codes the model uses (ASCII letters)
ToLower(c) == IF c \in 65..90 THEN c + 32 ELSE c

LowerStr(s) == [i \in DOMAIN s |-> ToLower(s[i])]

\* std::wstring::find(f) != npos
Contains(s, f) ==
    \E i \in 0..(Len(s) - Len(f)) : SubSeq(s, i + 1, i + Len(f)) = f

\* iswprint on a byte _getch returned: the ASCII printable range, and the
\* Latin-1 letters and signs (224 is a-grave)
IsWPrint(ch) == ch \in 32..126 \/ ch \in 161..255

\* MatchesFilter without the two towlower transforms
MatchesFilterExact(name, filter) ==
    IF filter = <<>> THEN TRUE ELSE Contains(name, filter)

MatchesFilter(name, filter) ==
    IF filter = <<>> THEN TRUE
    ELSE Contains(LowerStr(name), LowerStr(filter))

\* main, lines 225-228: the elements of list that match filter, in order
SelectMatching(list, filter) ==
    SelectSeq(list, LAMBDA p : MatchesFilter(p.name, filter))

----------------------------------------------------------------------------
(* std::map<DWORD, ULONGLONG>::operator[] read: a missing key reads as 0 *)

MapGet(m, k) == IF k \in DOMAIN m THEN m[k] ELSE 0


----------------------------------------------------------------------------
(* GetSystemCPU, lines 68-83 *)

Unavailable == Frac(-1, 1)      \* return -1 of line 71

BusyOf(t) == t.kernel + t.user  \* FileTimeToULL(kernel) + FileTimeToULL(user)

\* line 81 without its test
SkipsDivisionNever(sys) == FALSE

\* line 81: no time elapsed, the division is skipped
SkipsDivision(sys) == sys = 0

\* lines 73-82 computing busy time over busy plus idle time
SystemCpuValueBusyShare(prev, now) ==
    LET sys == BusyOf(now) - BusyOf(prev)
        idleDiff == now.idle - prev.idle
    IN  IF sys + idleDiff = 0 THEN Zero
        ELSE Frac(sys * 100, sys + idleDiff)

\* lines 73-82 on a successful read `now` with the statics holding `prev`
SystemCpuValue(prev, now) ==
    LET sys == BusyOf(now) - BusyOf(prev)
        idleDiff == now.idle - prev.idle
    IN  IF SkipsDivision(sys) THEN Zero
        ELSE IF sys - idleDiff < 0 THEN Wrapped(sys)
        ELSE Frac((sys - idleDiff) * 100, sys)

\* the division of line 82 is executed with a zero divisor
SystemDividesByZero(prev, now) ==
    LET sys == BusyOf(now) - BusyOf(prev)
    IN  ~SkipsDivision(sys) /\ sys = 0

\* GetSystemCPU without line 79
GetSystemCPUKeepsUser(prev, read) ==
    IF ~read.ok THEN [value |-> Unavailable, prev |-> prev, fault |-> FALSE]
    ELSE [value |-> SystemCpuValue(prev, read.t),
          prev |-> [read.t EXCEPT !.user = prev.user],
          fault |-> SystemDividesByZero(prev, read.t)]

\* the value returned, the statics afterwards and the division flag; read is
\* a record [ok, t]: whether GetSystemTimes succeeded and what it stored
GetSystemCPU(prev, read) ==
    IF ~read.ok THEN [value |-> Unavailable, prev |-> prev, fault |-> FALSE]
    ELSE [value |-> SystemCpuValue(prev, read.t), prev |-> read.t,
          fault |-> SystemDividesByZero(prev, read.t)]

----------------------------------------------------------------------------
(* GetProcesses, lines 94-140 *)

\* line 121 without the test for a stored system time
HasRateUntested(lastS, nowSys) == nowSys > lastS

\* line 121: a rate is computed for this process
HasRate(lastS, nowSys) == lastS > 0 /\ nowSys > lastS

\* lines 117-123 with the result capped at 100
ProcessCpuClamped(lastP, lastS, nowProc, nowSys) ==
    IF HasRate(lastS, nowSys)
    THEN IF nowProc - lastP < 0 \/ nowProc - lastP > nowSys - lastS
         THEN Frac(100, 1)
         ELSE Frac((nowProc - lastP) * 100, nowSys - lastS)
    ELSE Zero

\* lines 117-123: double cpu of a process whose times were read
ProcessCpu(lastP, lastS, nowProc, nowSys) ==
    IF HasRate(lastS, nowSys)
    THEN IF nowProc - lastP < 0 THEN Wrapped(nowSys - lastS)
         ELSE Frac((nowProc - lastP) * 100, nowSys - lastS)
    ELSE Zero

\* the division of line 122 is executed with a zero divisor
DividesByZero(lastS, nowSys) == HasRate(lastS, nowSys) /\ nowSys - lastS = 0

\* lines 106-131 for one entry e of the process table:
\* e = [pid, name, open, memOk, mem, timesOk, ctime]
Timed(e) == e.open /\ e.timesOk

\* lines 124-125 placed inside the if of line 121
RebasedWithRate(e, lastS, nowSys) == Timed(e) /\ HasRate(lastS, nowSys)

\* lines 124-125 are reached for entry e
Rebased(e, lastS, nowSys) == Timed(e)

ProcessInfoOf(e, lastP, lastS, nowSys) ==
    [pid    |-> e.pid,
     name   |-> e.name,
     memory |-> IF e.open /\ e.memOk THEN e.mem ELSE 0,
     cpu    |-> IF Timed(e) THEN ProcessCpu(lastP, lastS, e.ctime, nowSys)
                ELSE Zero]

\* the comparison of std::sort, lines 137-139
SortsBefore(a, b, byCpu) ==
    IF byCpu THEN FracGreater(a.cpu, b.cpu) ELSE a.memory > b.memory

\* x placed before the first element it sorts before, at the end if none
InsertSorted(sorted, x, byCpu) ==
    LET after == {i \in DOMAIN sorted : SortsBefore(x, sorted[i], byCpu)}
        at == IF after = {} THEN Len(sorted) + 1
              ELSE CHOOSE i \in after : \A j \in after : i <= j
    IN  SubSeq(sorted, 1, at - 1) \o <<x>> \o SubSeq(sorted, at, Len(sorted))

\* no element sorts before the one in front of it
InOrder(list, byCpu) ==
    \A i \in 1..(Len(list) - 1) : ~SortsBefore(list[i + 1], list[i], byCpu)

RECURSIVE InsertAll(_, _)
InsertAll(list, byCpu) ==
    IF list = <<>> THEN <<>>
    ELSE InsertSorted(InsertAll(SubSeq(list, 1, Len(list) - 1), byCpu),
                      list[Len(list)], byCpu)

\* std::sort applied to the vector as the last cycle left it: the elements
\* of list taken in the order their identifiers have in allProcesses
SortListInPlace(list, byCpu) ==
    LET at(i) == IF \E k \in DOMAIN allProcesses :
                      allProcesses[k].pid = list[i].pid
                 THEN CHOOSE k \in DOMAIN allProcesses :
                        allProcesses[k].pid = list[i].pid
                 ELSE Len(allProcesses) + i
        rank(i) == Cardinality({j \in DOMAIN list : at(j) < at(i)}) + 1
        carried == [r \in DOMAIN list |->
                      list[CHOOSE i \in DOMAIN list : rank(i) = r]]
    IN  InsertAll(carried, byCpu)

\* std::sort with the comparison above: elements that compare equal keep
\* the order of the enumeration, and a list already in order is unchanged
SortList(list, byCpu) ==
    IF InOrder(list, byCpu) THEN list ELSE InsertAll(list, byCpu)

\* the do-while of lines 105-132 followed by a sweep of the identifiers
\* the snapshot does not hold
WalkTableSweeping(table, nowSys, procTimes, sysTimes) ==
    LET timed == {i \in DOMAIN table : Timed(table[i])}
        pids == {table[i].pid : i \in timed}
        entryOf(p) == table[CHOOSE i \in timed : table[i].pid = p]
        lastP(e) == MapGet(procTimes, e.pid)
        lastS(e) == MapGet(sysTimes, e.pid)
    IN  [list |-> [i \in DOMAIN table |->
                     ProcessInfoOf(table[i], lastP(table[i]), lastS(table[i]),
                                   nowSys)],
         lastProcTime |-> [p \in pids |-> entryOf(p).ctime],
         lastSysTime |-> [p \in pids |-> nowSys],
         fault |-> FALSE]

\* the do-while of lines 105-132 leaving out the entries it cannot open
WalkTableOpenOnly(table, nowSys, procTimes, sysTimes) ==
    LET opened == SelectSeq(table, LAMBDA e : e.open)
        lastP(e) == MapGet(procTimes, e.pid)
        lastS(e) == MapGet(sysTimes, e.pid)
    IN  [list |-> [i \in DOMAIN opened |->
                     ProcessInfoOf(opened[i], lastP(opened[i]),
                                   lastS(opened[i]), nowSys)],
         lastProcTime |-> procTimes,
         lastSysTime |-> sysTimes,
         fault |-> FALSE]

\* the do-while of lines 105-132 over the entries of the snapshot.  The
\* identifiers of one snapshot are distinct, so every entry reads the maps
\* as they stood before the loop.
WalkTable(table, nowSys, procTimes, sysTimes) ==
    LET lastP(e) == MapGet(procTimes, e.pid)
        lastS(e) == MapGet(sysTimes, e.pid)
        stored == {i \in DOMAIN table :
                     Rebased(table[i], lastS(table[i]), nowSys)}
        pids == {table[i].pid : i \in stored}
        entryOf(p) == table[CHOOSE i \in stored : table[i].pid = p]
    IN  [list |-> [i \in DOMAIN table |->
                     ProcessInfoOf(table[i], lastP(table[i]), lastS(table[i]),
                                   nowSys)],
         lastProcTime |-> [p \in DOMAIN procTimes \cup pids |->
                             IF p \in pids THEN entryOf(p).ctime
                             ELSE procTimes[p]],
         lastSysTime |-> [p \in DOMAIN sysTimes \cup pids |->
                            IF p \in pids THEN nowSys ELSE sysTimes[p]],
         fault |-> \E i \in DOMAIN table :
                     Timed(table[i]) /\ DividesByZero(lastS(table[i]), nowSys)]

\* snap = [ok, table, nowSys]: the snapshot handle, the process table it
\* enumerates, and kernel+user as read on lines 100-101.  The list is
\* cleared on line 95, before the snapshot is taken.
GetProcesses(byCpu, snap, procTimes, sysTimes) ==
    IF ~snap.ok
    THEN [list |-> <<>>, lastProcTime |-> procTimes,
          lastSysTime |-> sysTimes, fault |-> FALSE]
    ELSE LET w == WalkTable(snap.table, snap.nowSys, procTimes, sysTimes)
         IN  [w EXCEPT !.list = SortList(w.list, byCpu)]

----------------------------------------------------------------------------
(* main: the key handling of one iteration, lines 180-212 *)

IsPrefix(ch) == ch = PrefixZero \/ ch = PrefixExt

\* PlainKey with Tab leaving the scroll offset where it is
PlainKeyTabKeepsScroll(u, ch) ==
    IF ch = KeyTab THEN [u EXCEPT !.sortByCpu = ~@]
    ELSE IF ch = KeyLowerH \/ ch = KeyUpperH THEN [u EXCEPT !.showHelp = ~@]
    ELSE IF ch = KeySlash
         THEN [u EXCEPT !.searchMode = TRUE, !.searchFilter = <<>>]
    ELSE u

\* SearchKey with Escape leaving the typed text in place
SearchKeyEscapeKeeps(u, ch) ==
    IF ch = KeyEsc \/ ch = KeyEnter THEN [u EXCEPT !.searchMode = FALSE]
    ELSE IF ch = KeyBackspace
         THEN IF u.searchFilter # <<>>
              THEN [u EXCEPT !.searchFilter = SubSeq(@, 1, Len(@) - 1)]
              ELSE u
    ELSE IF IsWPrint(ch) THEN [u EXCEPT !.searchFilter = Append(@, ch)]
    ELSE u

\* lines 183-192: one byte read in search mode
SearchKey(u, ch) ==
    IF ch = KeyEsc THEN [u EXCEPT !.searchMode = FALSE, !.searchFilter = <<>>]
    ELSE IF ch = KeyEnter THEN [u EXCEPT !.searchMode = FALSE]
    ELSE IF ch = KeyBackspace
         THEN IF u.searchFilter # <<>>
              THEN [u EXCEPT !.searchFilter = SubSeq(@, 1, Len(@) - 1)]
              ELSE u
    ELSE IF IsWPrint(ch) THEN [u EXCEPT !.searchFilter = Append(@, ch)]
    ELSE u

\* line 197
ScrollUp(sc) == IF sc > 0 THEN sc - 1 ELSE sc

\* line 198
ScrollDown(sc, nFiltered) == IF sc < nFiltered - PageSize THEN sc + 1 ELSE sc

\* lines 195-199: the byte that follows a 0 or 224 prefix
ArrowKey(u, ch, nFiltered) ==
    IF u.showHelp THEN u
    ELSE LET up == IF ch = KeyUpCode THEN ScrollUp(u.scroll) ELSE u.scroll
             down == IF ch = KeyDownCode THEN ScrollDown(up, nFiltered) ELSE up
         IN  [u EXCEPT !.scroll = down]

\* lines 201-209: any other byte outside search mode
PlainKey(u, ch) ==
    IF ch = KeyTab THEN [u EXCEPT !.sortByCpu = ~@, !.scroll = 0]
    ELSE IF ch = KeyLowerH \/ ch = KeyUpperH THEN [u EXCEPT !.showHelp = ~@]
    ELSE IF ch = KeySlash
         THEN [u EXCEPT !.searchMode = TRUE, !.searchFilter = <<>>]
    ELSE u

\* the second _getch of line 195 waits for a byte that is not there
Blocks(u, buf) ==
    buf # <<>> /\ ~u.searchMode /\ IsPrefix(Head(buf)) /\ Len(buf) < 2

\* lines 180-212: u is the view state, buf the console buffer; yields the
\* view state, the bytes read and the bytes left
HandleKey(u, buf, nFiltered) ==
    IF buf = <<>> THEN [u |-> u, read |-> <<>>, rest |-> buf]
    ELSE IF u.searchMode
         THEN [u |-> SearchKey(u, Head(buf)), read |-> <<Head(buf)>>,
               rest |-> Tail(buf)]
    ELSE IF IsPrefix(Head(buf))
         THEN [u |-> ArrowKey(u, buf[2], nFiltered), read |-> SubSeq(buf, 1, 2),
               rest |-> SubSeq(buf, 3, Len(buf))]
    ELSE [u |-> PlainKey(u, Head(buf)), read |-> <<Head(buf)>>,
          rest |-> Tail(buf)]

\* the run of keys since '/' was pressed in Normal mode: typing while only
\* printable characters followed, escaped or entered once Escape or Enter
\* ended it, idle otherwise
Idle == [phase |-> "idle", w |-> <<>>]

TrailNext(tr, u, read) ==
    IF read = <<>> THEN tr
    ELSE IF ~u.searchMode
         THEN IF read = <<KeySlash>> /\ ~u.showHelp
              THEN [phase |-> "typing", w |-> <<>>]
              ELSE Idle
    ELSE IF tr.phase # "typing" THEN Idle
    ELSE IF read[1] = KeyEsc THEN [tr EXCEPT !.phase = "escaped"]
    ELSE IF read[1] = KeyEnter THEN [tr EXCEPT !.phase = "entered"]
    ELSE IF read[1] # KeyBackspace /\ IsWPrint(read[1])
         THEN [tr EXCEPT !.w = Append(@, read[1])]
    ELSE Idle

----------------------------------------------------------------------------
(* The operating system, as far as one iteration reads it *)

Times(i, k, u) == [idle |-> i, kernel |-> k, user |-> u]

\* the statics of GetSystemCPU are zero-initialised
ZeroTimes == Times(0, 0, 0)

\* answers of GetSystemTimes.  The counters are cumulative, and kernel time
\* includes idle time, so idle never grows by more than kernel + user does.
SampleLine ==
    <<Times(100, 50, 50), Times(120, 70, 60), Times(3000, 4000, 1000),
      Times(3300, 4300, 1200), Times(3300, 4400, 1300)>>

SysSamples(rich) ==
    IF rich
    THEN {SampleLine[i] : i \in 1..NumSamples}
    ELSE {SampleLine[1]}

Later(a, b) ==
    /\ b.idle >= a.idle /\ b.kernel >= a.kernel /\ b.user >= a.user
    /\ b.idle - a.idle <= BusyOf(b) - BusyOf(a)

LaterSamples(os, rich) == {t \in SysSamples(rich) : Later(os, t)}

\* what nowSys holds when the GetSystemTimes of line 100 fails: its result
\* is not examined, and sysKernel and sysUser are uninitialised
Garbage == {0, 110}

\* cumulative kernel + user time of a process, GetProcessTimes.  A process
\* identifier is reused after exit, so the value may also go down.
TimeLine == <<1000, 1200, 1500, 1700>>

ProcTimes(rich) ==
    IF rich THEN {TimeLine[i] : i \in 1..NumTimes} ELSE {TimeLine[1]}

\* the process the monitor may open; OpenProcess is denied for the others
ObservedPid == 1

\* szExeFile of a process
NameOf(pid) ==
    IF pid = ObservedPid THEN <<80, 104>>   \* "Ph"
    ELSE IF pid % 2 = 1 THEN <<72, 80>>     \* "HP"
    ELSE <<112>>                            \* "p"

\* WorkingSetSize of a process
MemOf(pid) == 100 * pid

Entry(pid, open, memOk, timesOk, ctime) ==
    [pid |-> pid, name |-> NameOf(pid), open |-> open, memOk |-> memOk,
     mem |-> MemOf(pid), timesOk |-> timesOk, ctime |-> ctime]

\* the ways the queries on one process can go: OpenProcess denied, the
\* time query failing, the memory query failing, or both answered
Outcomes(pid, rich) ==
    IF rich
    THEN {Entry(pid, FALSE, FALSE, FALSE, 0), Entry(pid, TRUE, TRUE, FALSE, 0),
          Entry(pid, TRUE, FALSE, TRUE, TimeLine[1])}
         \cup {Entry(pid, TRUE, TRUE, TRUE, c) : c \in ProcTimes(rich)}
    ELSE {Entry(pid, TRUE, TRUE, TRUE, c) : c \in ProcTimes(rich)}

\* the other processes
BackgroundPid(i) == 100 + i

Background(n) == [i \in 1..n |-> Entry(BackgroundPid(i), FALSE, FALSE, FALSE, 0)]

BackgroundCounts(rich) == IF rich THEN {0} ELSE {PageSize + NumExtra}

\* the observed process, running or not
ActiveTables(rich) == {<<>>} \cup {<<e>> : e \in Outcomes(ObservedPid, rich)}

\* the process tables a snapshot can enumerate
Tables(rich) ==
    {a \o Background(n) : a \in ActiveTables(rich), n \in BackgroundCounts(rich)}

\* CreateToolhelp32Snapshot and, when it succeeded, the GetSystemTimes of
\* line 100, which reads the counters `now` or fails and leaves garbage
Snapshots(now, rich) ==
    {[ok |-> TRUE, table |-> tb, nowSys |-> BusyOf(now)] : tb \in Tables(rich)}
    \cup IF rich
         THEN {[ok |-> FALSE, table |-> <<>>, nowSys |-> 0]}
              \cup {[ok |-> TRUE, table |-> tb, nowSys |-> g] :
                      tb \in Tables(rich), g \in Garbage}
         ELSE {}

\* the GetSystemTimes of line 71
Reads(now, rich) ==
    {[ok |-> TRUE, t |-> now]}
    \cup IF rich THEN {[ok |-> FALSE, t |-> ZeroTimes]} ELSE {}

\* a table of three processes: two whose time query fails, holding more
\* memory than the observed process enumerated after them
RankedTable(c) ==
    <<Entry(ObservedPid + 1, TRUE, TRUE, FALSE, 0),
      Entry(ObservedPid + 2, TRUE, TRUE, FALSE, 0),
      Entry(ObservedPid, TRUE, TRUE, TRUE, c)>>

RankedSnapshots(now) ==
    {[ok |-> TRUE, table |-> RankedTable(c), nowSys |-> BusyOf(now)] :
       c \in ProcTimes(TRUE)}

\* key presses, as the bytes the console delivers for them
ArrowKeys == {<<PrefixExt, KeyUpCode>>, <<PrefixExt, KeyDownCode>>}

KeyPresses(rich) ==
    IF rich THEN {<<KeyLowerH>>}
    ELSE {<<KeyEsc>>, <<KeyEnter>>, <<KeyBackspace>>, <<KeyTab>>, <<KeySlash>>,
          <<KeyLowerH>>, <<KeyUpperH>>} \cup ArrowKeys

PrintableIn(key) == Cardinality({i \in DOMAIN key : IsWPrint(key[i])})

----------------------------------------------------------------------------
(* main *)

View == [sortByCpu |-> sortByCpu, showHelp |-> showHelp, scroll |-> scroll,
         searchMode |-> searchMode, searchFilter |-> searchFilter]

NoSnapshot == [ok |-> FALSE, table |-> <<>>, nowSys |-> 0]
NoRead == [ok |-> FALSE, t |-> ZeroTimes]
NotShown == [set |-> FALSE, input |-> <<>>, list |-> <<>>]

\* the processes of the last cycle in the order of their enumeration, as
\* GetProcesses held them before line 137
Unsorted ==
    WalkTable(io.snap.table, io.snap.nowSys, io.before.lastProcTime,
              io.before.lastSysTime).list

\* cpuShown after the bytes `read`: a Tab that leaves CPU order records the
\* list on display
ShownNext(read) ==
    IF read = <<KeyTab>> /\ ~searchMode /\ sortByCpu
    THEN IF io.sampled /\ io.snap.ok /\ Len(allProcesses) <= MaxShown
         THEN [set |-> TRUE, input |-> Unsorted, list |-> allProcesses]
         ELSE NotShown
    ELSE cpuShown

\* what an iteration starts from
Before == [lastProcTime |-> lastProcTime, lastSysTime |-> lastSysTime,
           prevTimes |-> prevTimes, sortByCpu |-> sortByCpu]

Init ==
    /\ sortByCpu = TRUE
    /\ showHelp = FALSE
    /\ scroll = 0
    /\ searchMode = FALSE
    /\ searchFilter = <<>>
    /\ allProcesses = <<>>
    /\ filtered = <<>>
    /\ lastProcTime = <<>>
    /\ lastSysTime = <<>>
    /\ prevTimes = ZeroTimes
    /\ cpu = NotComputed
    /\ kbuf = <<>>
    /\ osTimes = ZeroTimes
    /\ io = [read |-> <<>>, sampled |-> FALSE, snap |-> NoSnapshot, sys |-> NoRead,
             before |-> Before]
    /\ divFault = FALSE
    /\ trail = Idle
    /\ cpuShown = NotShown

\* lines 220-228: sample, compute and filter
SampleAndFilter(h, snap, read, now) ==
    \E g \in {GetProcesses(h.u.sortByCpu, snap, lastProcTime, lastSysTime)} :
      \E c \in {GetSystemCPU(prevTimes, read)} :
        /\ allProcesses' = g.list
        /\ lastProcTime' = g.lastProcTime
        /\ lastSysTime' = g.lastSysTime
        /\ cpu' = c.value
        /\ prevTimes' = c.prev
        /\ filtered' = SelectMatching(g.list, h.u.searchFilter)
        /\ osTimes' = now
        /\ divFault' = (divFault \/ g.fault \/ c.fault)
        /\ io' = [read |-> h.read, sampled |-> TRUE, snap |-> snap, sys |-> read,
                  before |-> Before]

\* lines 214-218 without the continue: the help cycle samples as well
ShowHelpScreenSampling(h) ==
    \E now \in LaterSamples(osTimes, FALSE) :
      \E snap \in Snapshots(now, FALSE) :
        \E read \in Reads(now, FALSE) :
          SampleAndFilter(h, snap, read, now)

\* lines 214-218: the help screen is shown and the iteration ends
ShowHelpScreen(h) ==
    /\ io' = [read |-> h.read, sampled |-> FALSE, snap |-> NoSnapshot, sys |-> NoRead,
              before |-> Before]
    /\ UNCHANGED <<allProcesses, filtered, lastProcTime, lastSysTime, prevTimes,
                   cpu, osTimes, divFault>>

\* one iteration of while (true), lines 179-263.  key is the key pressed
\* since the last iteration (<<>> for none).  The system counters advance
\* between iterations to one of DOMAIN snaps; the two reads of one iteration
\* see the same values, snaps[now] and reads[now] being what they can return.
Iteration(key, snaps, reads) ==
    /\ key # <<>> => kbuf = <<>>
    /\ searchMode => Len(searchFilter) + PrintableIn(key) <= MaxFilterLen
    /\ ~Blocks(View, kbuf \o key)
    /\ \E h \in {HandleKey(View, kbuf \o key, Len(filtered))} :
        /\ sortByCpu' = h.u.sortByCpu
        /\ showHelp' = h.u.showHelp
        /\ scroll' = h.u.scroll
        /\ searchMode' = h.u.searchMode
        /\ searchFilter' = h.u.searchFilter
        /\ kbuf' = h.rest
        /\ trail' = TrailNext(trail, View, h.read)
        /\ cpuShown' = ShownNext(h.read)
        /\ IF h.u.showHelp
           THEN ShowHelpScreen(h)
           ELSE \E now \in DOMAIN snaps :
                  \E snap \in snaps[now] :
                    \E read \in reads[now] :
                      SampleAndFilter(h, snap, read, now)

MainLoop(key, rich) ==
    Iteration(key,
              [now \in LaterSamples(osTimes, rich) |-> Snapshots(now, rich)],
              [now \in LaterSamples(osTimes, rich) |-> Reads(now, rich)])

\* an iteration over the table of three processes
RankedLoop(key) ==
    Iteration(key,
              [now \in LaterSamples(osTimes, TRUE) |-> RankedSnapshots(now)],
              [now \in LaterSamples(osTimes, TRUE) |-> Reads(now, FALSE)])

\* an iteration with no key pending or pressed
Quiet(rich) == MainLoop(<<>>, rich)

\* an iteration that finds a key pressed
Keyed(rich) == \E key \in KeyPresses(rich) : MainLoop(key, rich)

\* the monitor with the counters and queries of the system varying freely
Next == Quiet(TRUE) \/ Keyed(TRUE)

Spec == Init /\ [][Next]_vars

\* the monitor with every key in use, on a system whose counters stand still
NextUI == Quiet(FALSE) \/ Keyed(FALSE)

SpecUI == Init /\ [][NextUI]_vars

\* the monitor on the table of three processes, with the Tab key in use
QuietRanked == RankedLoop(<<>>)

KeyedRanked == RankedLoop(<<KeyTab>>)

NextRanked == QuietRanked \/ KeyedRanked

SpecRanked == Init /\ [][NextRanked]_vars

----------------------------------------------------------------------------
(* Reading the last iteration *)

Max(a, b) == IF a >= b THEN a ELSE b

\* the iteration sampled and its snapshot enumerated a process table
Enumerated == io.sampled /\ io.snap.ok

\* the entries of that table, and those whose times were read on line 116
Entries == {io.snap.table[i] : i \in DOMAIN io.snap.table}
TimedEntries == {e \in Entries : Timed(e)}

\* how often the identifier of entry e occurs in allProcesses
Occurrences(e) ==
    Cardinality({j \in DOMAIN allProcesses : allProcesses[j].pid = e.pid})

\* the element of allProcesses made from entry e
Listed(e) == {allProcesses[i] : i \in {j \in DOMAIN allProcesses : allProcesses[j].pid = e.pid}}

\* the baseline the iteration found for entry e (0 where the map had none)
PrevProc(e) == MapGet(io.before.lastProcTime, e.pid)
PrevSys(e) == MapGet(io.before.lastSysTime, e.pid)

\* the iteration called GetSystemCPU and GetSystemTimes answered it
SystemSampled == io.sampled /\ io.sys.ok

\* elapsed kernel + user and idle time between the statics and that answer
ElapsedBusy == BusyOf(io.sys.t) - BusyOf(io.before.prevTimes)
ElapsedIdle == io.sys.t.idle - io.before.prevTimes.idle

----------------------------------------------------------------------------
(* C1: the scroll offset stays within 0 .. max(0, filteredCount - 15) in   *)
(* every reachable state of the main loop.                                 *)
C1_ScrollWithinBounds ==
    0 <= scroll /\ scroll <= Max(0, Len(filtered) - PageSize)

(* C2: from Normal mode, '/' then printable characters w then Escape ends  *)
(* in Normal mode with empty filter text; ending in Enter instead ends in  *)
(* Normal mode with filter text exactly w.                                 *)
C2_SearchSequence ==
    /\ trail.phase = "escaped" =>
         ~searchMode /\ ~showHelp /\ searchFilter = <<>>
    /\ trail.phase = "entered" =>
         ~searchMode /\ ~showHelp /\ searchFilter = trail.w

\* '/', two characters and Enter have been read
C2_Witness ==
    trail.phase = "entered" /\ Len(trail.w) = 2 /\ io.read = <<KeyEnter>>

(* C3: the CPU% of a process is 0 when the maps hold no baseline for its   *)
(* identifier, or when the system time now is not above the baseline's.    *)
C3_NoBaselineNoRate ==
    Enumerated =>
      \A e \in Entries :
        (e.pid \notin DOMAIN io.before.lastSysTime \/ io.snap.nowSys <= PrevSys(e))
          => Listed(e) # {} /\ \A p \in Listed(e) : p.cpu = Zero

\* a process whose times were read is seen for the first time
C3_Witness ==
    /\ Enumerated
    /\ \E e \in TimedEntries :
         e.pid \notin DOMAIN io.before.lastSysTime /\ e.ctime > 0

C5_Scenario ==
    /\ SystemSampled
    /\ io.before.prevTimes = Times(100, 50, 50)
    /\ io.sys.t = Times(120, 70, 60)

(* C5 as stated: after the samples (idle=100, kernel=50, user=50) and      *)
(* (idle=120, kernel=70, user=60) the system-wide CPU% is 60.              *)
C5_SixtyPercent == C5_Scenario => FracIs(cpu, 60, 1)

(* C5 amended: after those two samples the system-wide CPU% is             *)
(* 100 * (30 - 20) / 30, one third of 100.                                 *)
C5_OneThird == C5_Scenario => FracIs(cpu, 100, 3)

\* the second sample of the scenario has been read
C5_Witness == C5_Scenario /\ cpu = Frac(1000, 30)

(* C6: for consecutive system samples with elapsed kernel + user time      *)
(* D > 0, the CPU% returned is 100 * (D - elapsed idle) / D, and the       *)
(* stored previous sample becomes the current one.                         *)
C6_SystemRate ==
    (SystemSampled /\ io.before.prevTimes # ZeroTimes /\ ElapsedBusy > 0)
      => /\ cpu = Frac((ElapsedBusy - ElapsedIdle) * 100, ElapsedBusy)
         /\ prevTimes = io.sys.t

\* a later sample followed a stored one, with busy and idle time elapsed
C6_Witness ==
    /\ SystemSampled /\ io.before.prevTimes # ZeroTimes
    /\ ElapsedBusy > 0 /\ ElapsedIdle > 0
    /\ prevTimes # io.before.prevTimes

(* C7: the first system-wide computation, with no previous sample stored,  *)
(* returns the 'unavailable' value and no percentage.                      *)
C7_FirstCallUnavailable ==
    (io.sampled /\ io.before.prevTimes = ZeroTimes) => cpu = Unavailable

(* C8: when no system time elapsed between two samples, the system-wide    *)
(* CPU% and every per-process CPU% are 0, and no division by zero is ever  *)
(* executed.                                                               *)
C8_ZeroElapsed ==
    /\ ~divFault
    /\ (SystemSampled /\ ElapsedBusy = 0) => cpu = Zero
    /\ Enumerated =>
         \A e \in TimedEntries :
           (e.pid \in DOMAIN io.before.lastSysTime /\ io.snap.nowSys = PrevSys(e))
             => \A p \in Listed(e) : p.cpu = Zero

\* the same counters were read twice, for the system and for a process
\* that has a baseline
C8_Witness ==
    /\ SystemSampled /\ io.before.prevTimes # ZeroTimes /\ ElapsedBusy = 0
    /\ Enumerated
    /\ \E e \in TimedEntries : PrevSys(e) > 0 /\ io.snap.nowSys = PrevSys(e)

C10_PreviousListShown ==
    [][(io'.sampled /\ ~io'.snap.ok) => filtered' = filtered]_vars

\* one of the queries on entry e failed
SomeQueryFailed(e) == ~e.open \/ ~e.memOk \/ ~e.timesOk

\* every enumerated process is listed once, and nothing else is listed
C11_ListedOnce ==
    /\ Len(allProcesses) = Len(io.snap.table)
    /\ \A e \in Entries : Occurrences(e) = 1

C12_FromSnapshot(before, stored) ==
    /\ DOMAIN stored = DOMAIN before \cup {e.pid : e \in TimedEntries}
    /\ \A pid \in DOMAIN before :
         (\A e \in TimedEntries : e.pid # pid) => stored[pid] = before[pid]

(* C12: no key event changes the baseline maps: after an iteration that    *)
(* read a key they are what its snapshot alone makes of them, and after an *)
(* iteration that shows help nothing was sampled and they are what they    *)
(* were at its start.                                                      *)
C12_KeysLeaveBaselines ==
    /\ showHelp =>
         /\ ~io.sampled
         /\ lastProcTime = io.before.lastProcTime
         /\ lastSysTime = io.before.lastSysTime
    /\ (io.read # <<>> /\ ~Enumerated) =>
         /\ lastProcTime = io.before.lastProcTime
         /\ lastSysTime = io.before.lastSysTime
    /\ (io.read # <<>> /\ Enumerated) =>
         /\ C12_FromSnapshot(io.before.lastProcTime, lastProcTime)
         /\ C12_FromSnapshot(io.before.lastSysTime, lastSysTime)
         /\ \A e \in TimedEntries :
              lastProcTime[e.pid] = e.ctime /\ lastSysTime[e.pid] = io.snap.nowSys

\* a key was read in a help cycle while the maps held a baseline
C12_Witness ==
    /\ showHelp /\ io.read = <<KeyTab>>
    /\ ObservedPid \in DOMAIN lastSysTime

\* Normal mode: neither searching nor showing help
Normal == ~searchMode /\ ~showHelp

\* an h or H key press was read
HelpKeyRead(read) == read = <<KeyLowerH>> \/ read = <<KeyUpperH>>

(* C13: h or H pressed in Normal mode enters Help, and h or H pressed in   *)
(* any state in which help is shown returns to Normal mode.                *)
C13_HelpToggle ==
    [][HelpKeyRead(io'.read) =>
         /\ Normal => (showHelp' /\ ~searchMode')
         /\ showHelp => (~showHelp' /\ ~searchMode')]_vars

(* C14: Tab pressed in Normal mode keeps the mode Normal, toggles the sort *)
(* key, sets the scroll offset to 0 and leaves the filter text unchanged;  *)
(* an iteration without a key leaves the sort key alone, and a second Tab  *)
(* restores the sort key the first one found.                              *)
C14_TabTogglesSort ==
    [][/\ (io'.read = <<KeyTab>> /\ Normal) =>
            /\ ~searchMode' /\ ~showHelp'
            /\ sortByCpu' = ~sortByCpu
            /\ scroll' = 0
            /\ searchFilter' = searchFilter
       /\ io'.read = <<>> => sortByCpu' = sortByCpu
       /\ (io'.read = <<KeyTab>> /\ io.read = <<KeyTab>>) =>
            sortByCpu' = io.before.sortByCpu]_vars

\* a second Tab in Normal mode, with a filter applied and the list scrolled
\* before the first
C14_Witness ==
    /\ io.read = <<KeyTab>> /\ Normal
    /\ sortByCpu /\ ~io.before.sortByCpu
    /\ searchFilter # <<>> /\ scroll = 0

\* name holds text at offset k, letter case aside
C15_HoldsAt(name, text, k) ==
    /\ k + Len(text) <= Len(name)
    /\ \A j \in 1..Len(text) : ToLower(name[k + j]) = ToLower(text[j])

\* the positions of allProcesses whose name contains the filter text
C15_Kept ==
    {i \in DOMAIN allProcesses :
       \E k \in 0..Len(allProcesses[i].name) :
         C15_HoldsAt(allProcesses[i].name, searchFilter, k)}

(* C15: in every sampling cycle the filtered list is made of exactly the   *)
(* processes of the sorted list whose name contains the filter text as a   *)
(* case-insensitive substring, in the same order; with empty filter text   *)
(* it is the whole sorted list, and filtering it again changes nothing.    *)
C15_FilteredList ==
    io.sampled =>
      /\ Len(filtered) = Cardinality(C15_Kept)
      /\ \A i \in C15_Kept :
           filtered[Cardinality({j \in C15_Kept : j <= i})] = allProcesses[i]
      /\ searchFilter = <<>> => filtered = allProcesses
      /\ SelectMatching(filtered, searchFilter) = filtered

\* the text "h" keeps the processes named "Ph" and "HP" and drops those
\* named "p"
C15_Witness ==
    /\ io.sampled /\ searchFilter = <<KeyLowerH>>
    /\ \E i \in DOMAIN filtered : filtered[i].name = <<72, 80>>
    /\ \E i \in DOMAIN filtered : filtered[i].name = <<80, 104>>
    /\ \E i \in DOMAIN allProcesses : allProcesses[i].name = <<112>>
    /\ Len(filtered) < Len(allProcesses)

(* C17: text typed in Search mode restricts the displayed list only from   *)
(* the Enter press on: in no cycle between the '/' press and the Escape or *)
(* Enter press is the displayed list restricted by the text being typed.   *)
C17_TypedTextNotApplied ==
    (io.sampled /\ searchMode) => filtered = allProcesses

(* C19: the mode is exactly one of Normal, Search and Help: search mode    *)
(* and the help display are never active at the same time.                 *)
C19_OneMode == ~(searchMode /\ showHelp)

\* a byte of an arrow key press is read: the prefix, or the code it left
\* in the console buffer
C20_ArrowByteRead ==
    \/ io'.read = <<PrefixZero>> \/ io'.read = <<PrefixExt>>
    \/ kbuf # <<>> /\ io'.read = <<Head(kbuf)>>

(* C20: in Search mode the bytes of an Up or Down arrow key press, read    *)
(* one per cycle, leave the filter text, the scroll offset and the mode    *)
(* unchanged.                                                              *)
C20_ArrowIgnoredInSearch ==
    [][(searchMode /\ C20_ArrowByteRead) =>
         /\ searchFilter' = searchFilter
         /\ scroll' = scroll
         /\ searchMode' = searchMode]_vars

(* C18: the set of process identifiers held in the baseline maps never     *)
(* shrinks: an identifier observed once stays in both maps, also when its  *)
(* process is missing from later snapshots.                                *)
C18_BaselinesNeverShrink ==
    [][/\ DOMAIN lastProcTime \subseteq DOMAIN lastProcTime'
       /\ DOMAIN lastSysTime \subseteq DOMAIN lastSysTime']_vars

\* a snapshot without the observed process was walked while the maps held
\* its baseline, and they still hold it
C18_Witness ==
    /\ Enumerated
    /\ \A e \in Entries : e.pid # ObservedPid
    /\ ObservedPid \in DOMAIN io.before.lastSysTime
    /\ ObservedPid \in DOMAIN lastSysTime
    /\ ObservedPid \in DOMAIN lastProcTime

\* two neighbours of the list have equal CPU% and the second holds more
\* memory
C16_TieAgainstMemory ==
    \E i \in 1..(Len(allProcesses) - 1) :
      /\ allProcesses[i].cpu = allProcesses[i + 1].cpu
      /\ allProcesses[i].memory < allProcesses[i + 1].memory

====
